---- MODULE Spec2Model ----
(***************************************************************************)
(* Transcript translation and caching subsystem of LINGOFLOW:              *)
(*   - POST /api/transcribe and its background task (server/routes.ts)     *)
(*   - GET /api/transcribe/:id/translation/:language (server/routes.ts)    *)
(*   - the translation cache of DatabaseStorage                            *)
(*                                                                         *)
(* Representation.                                                         *)
(*   A language code is a sequence of characters (<<"e","n">>), so that    *)
(*   lower-casing and splitting on "-" and "_" are computed.               *)
(*   A text is a sequence of lines.  A line is a record                    *)
(*     [ts, script, id, kind, lead]                                        *)
(*   ts     : the leading HH:MM:SS timestamp (a number) or NoTs            *)
(*   script : "lat" (no Devanagari), "dev" (has a character in             *)
(*            U+0900..U+097F) or "blank" (empty / whitespace only body)    *)
(*   id     : which piece of text the body is (or derives from)            *)
(*   kind   : "orig" (provider caption text), "tr" (text returned by the   *)
(*            translation provider for that piece) or "mock" (a line of    *)
(*            the hard-coded mockHindiToEnglish)                           *)
(*   lead   : the body (what follows the timestamp and one space, or the   *)
(*            whole line when there is no timestamp) begins with           *)
(*            whitespace; a "blank" body with lead is whitespace, without  *)
(*            lead it is empty                                             *)
(*   Every database operation either succeeds or throws.                   *)
(*   - POST /api/translate-pdf and its background task (server/routes.ts): *)
(*     doc holds the document_translations row (doc.job) and the task's    *)
(*     position and locals.  The text of a document is one such line.      *)
(*   fn holds one evaluation of a helper function (normalizeLanguageCode,  *)
(*   translateText) on its own: the arguments, then the value returned.    *)
(***************************************************************************)
EXTENDS Integers, Sequences, FiniteSets, TLC

VARIABLES video, job, bg, cache, req, ncalls, nfaults, boot, overlap, fn, doc

vars == <<video, job, bg, cache, req, ncalls, nfaults, boot, overlap, fn, doc>>

\* Bounds of the model.
MaxLines == 2
MaxCalls == 2
MaxFaults == 1
MaxCodeLen == 3

---------------------------------------------------------------------------
(* Language codes *)

NoLang == <<>>
EN == <<"e", "n">>
ES == <<"e", "s">>
HI == <<"h", "i">>
EN_US == <<"e", "n", "-", "U", "S">>

UpperCase == <<"A","B","C","D","E","F","G","H","I","J","K","L","M",
               "N","O","P","Q","R","S","T","U","V","W","X","Y","Z">>
LowerCase == <<"a","b","c","d","e","f","g","h","i","j","k","l","m",
               "n","o","p","q","r","s","t","u","v","w","x","y","z">>

\* String.prototype.toLowerCase, character by character.
toLowerCase(code) ==
  [i \in 1..Len(code) |->
     IF \E k \in 1..26 : UpperCase[k] = code[i]
       THEN LowerCase[CHOOSE k \in 1..26 : UpperCase[k] = code[i]]
       ELSE code[i]]

\* code.split(sep)[0]: the part before the first separator.
FirstSegment(code, sep) ==
  IF \E i \in 1..Len(code) : code[i] = sep
    THEN SubSeq(code, 1,
                (CHOOSE i \in 1..Len(code) :
                    /\ code[i] = sep
                    /\ \A j \in 1..(i-1) : code[j] # sep) - 1)
    ELSE code

\* The languageMap table of normalizeLanguageCode.
languageMap ==
  [k \in { <<"e","n">>, <<"e","s">>, <<"f","r">>, <<"d","e">>, <<"p","t">>,
           <<"z","h">>, <<"j","a">>, <<"k","o">>, <<"a","r">>, <<"h","i">>,
           <<"r","u">>, <<"i","t">>, <<"n","l">>, <<"p","l">>, <<"t","r">>,
           <<"v","i">>, <<"t","h">>, <<"i","d">> } |-> k]

\* languageMap is an object literal: a lookup also finds the properties it
\* inherits from Object.prototype.  "constructor" is the only one a
\* lower-cased segment without "-" and "_" can name; its value is the
\* function Object, which is no string.
CONSTRUCTOR == <<"c","o","n","s","t","r","u","c","t","o","r">>
InheritedKeys == {CONSTRUCTOR}
ObjectFunction == <<"[Function: Object]">>

\* A call that throws: TypeError, code.toLowerCase is not a function.
TypeError == <<"[TypeError]">>

\* languageMap[baseCode]; undefined is <<>>.
languageMapGet(baseCode) ==
  IF baseCode \in DOMAIN languageMap THEN languageMap[baseCode]
  ELSE IF baseCode \in InheritedKeys THEN ObjectFunction
  ELSE <<>>

normalizeLanguageCode(code) ==
  IF code = NoLang THEN EN
  ELSE IF code = ObjectFunction THEN TypeError
  ELSE LET baseCode == FirstSegment(FirstSegment(toLowerCase(code), "-"), "_")
           value == languageMapGet(baseCode)
       IN IF value # <<>> THEN value ELSE EN

---------------------------------------------------------------------------
(* Texts *)

NoTs == -1
Scripts == {"lat", "dev", "blank"}

\* /[ऀ-ॿ]/.test(text)
hasHindiChars(text) == \E i \in 1..Len(text) : text[i].script = "dev"

\* line.trim() is empty: no timestamp and a blank body.
IsBlankLine(line) == line.ts = NoTs /\ line.script = "blank"

\* text.trim().length === 0
IsBlankText(text) == \A i \in 1..Len(text) : IsBlankLine(text[i])

\* line.match(/^(\d{2}:\d{2}:\d{2})\s+(.+)$/): a timestamp, whitespace
\* and at least one more character; \s+ gives back its last character when
\* nothing but whitespace follows the timestamp.
timestampMatch(line) == line.ts # NoTs /\ (line.script # "blank" \/ line.lead)

\* The second group of the match: the body without its leading whitespace,
\* or one whitespace character when the body is nothing else.
MatchedText(line) ==
  [line EXCEPT !.ts = NoTs, !.lead = (line.script = "blank")]

RECURSIVE SelectLines(_)
\* originalText.split('\n').filter(line => line.trim())
SelectLines(text) ==
  IF text = <<>> THEN <<>>
  ELSE IF IsBlankLine(Head(text)) THEN SelectLines(Tail(text))
       ELSE <<Head(text)>> \o SelectLines(Tail(text))

\* The constant mockHindiToEnglish: three timestamped Latin lines.
mockHindiToEnglish ==
  << [ts |-> 0, script |-> "lat", id |-> 1, kind |-> "mock", lead |-> FALSE],
     [ts |-> 1, script |-> "lat", id |-> 2, kind |-> "mock", lead |-> FALSE],
     [ts |-> 7, script |-> "lat", id |-> 3, kind |-> "mock", lead |-> FALSE] >>

---------------------------------------------------------------------------
(* The transcript provider and fetchYoutubeTranscript *)

\* A caption segment is the sequence of the pieces of its text that the
\* newlines in it separate; segment k starts at second k-1.
Segments == UNION { [1..n -> Scripts] : n \in 1..MaxLines }

RECURSIVE TotalPieces(_)
TotalPieces(segs) ==
  IF segs = <<>> THEN 0 ELSE Len(Head(segs)) + TotalPieces(Tail(segs))

Transcripts ==
  { segs \in UNION { [1..m -> Segments] : m \in 0..MaxLines } :
      TotalPieces(segs) <= MaxLines }

\* The language the provider reports; NoLang: it reports none.
ProviderLanguages == {NoLang, ES}

\* No answer: the request to TranscriptAPI.com fails.
NoVideo == [ok |-> FALSE, transcript |-> <<>>, language |-> NoLang, lead |-> {}]

\* What TranscriptAPI.com answers for the requested URL; lead: the segments
\* whose text begins with whitespace, here none.
Videos ==
  [ok : {TRUE}, transcript : Transcripts, language : ProviderLanguages,
   lead : {{}}]
    \cup {NoVideo}

\* The answers with any segment text beginning with whitespace.
VideosWithLead ==
  { v \in [ok : {TRUE}, transcript : Transcripts, language : ProviderLanguages,
            lead : SUBSET (1..MaxLines)] :
      v.lead \subseteq 1..Len(v.transcript) }

RECURSIVE FormatSegments(_, _, _, _)
\* data.transcript.map(segment => `${timestamp} ${segment.text}`).join('\n')
\* k: index of the segment, n: number of lines already produced, lead: the
\* segments whose text begins with whitespace.
FormatSegments(segs, k, n, lead) ==
  IF segs = <<>> THEN <<>>
  ELSE LET seg == Head(segs)
           lines == [p \in 1..Len(seg) |->
                       [ts |-> IF p = 1 THEN k - 1 ELSE NoTs,
                        script |-> seg[p], id |-> n + p, kind |-> "orig",
                        lead |-> (p = 1 /\ k \in lead)]]
       IN lines \o FormatSegments(Tail(segs), k + 1, n + Len(seg), lead)

fetchYoutubeTranscript(v) ==
  IF ~v.ok THEN [ok |-> FALSE, message |-> "api error"]
  ELSE IF Len(v.transcript) = 0
    THEN [ok |-> FALSE, message |-> "no captions"]
  ELSE IF \A k \in 1..Len(v.transcript) :
             \A p \in 1..Len(v.transcript[k]) : v.transcript[k][p] = "blank"
    THEN [ok |-> FALSE, message |-> "no captions"]
  ELSE [ok |-> TRUE,
        transcriptWithTimestamps |-> FormatSegments(v.transcript, 1, 0, v.lead),
        language |-> IF v.language = NoLang THEN EN ELSE v.language]

---------------------------------------------------------------------------
(* Storage *)

Owner == "owner"
Users == {"owner", "other"}

NoJob ==
  [status |-> "absent", progress |-> 0, transcription |-> <<>>,
   sourceLanguage |-> NoLang, error |-> "", userId |-> ""]

\* storage.createTranscription with the values POST /api/transcribe passes.
createTranscription(userId) ==
  [status |-> "processing", progress |-> 0, transcription |-> <<>>,
   sourceLanguage |-> NoLang, error |-> "", userId |-> userId]

\* DatabaseStorage.updateTranscriptionStatus: undefined arguments are <<>>
\* (transcription) and "" (error); a falsy argument leaves the column alone.
updateTranscriptionStatus(j, status, progress, transcription, error) ==
  [j EXCEPT !.status = status,
            !.progress = progress,
            !.transcription = IF transcription # <<>> THEN transcription ELSE @,
            !.error = IF error # "" THEN error ELSE @]

\* A database or file-system operation succeeds (ok) or throws; at most
\* MaxFaults throw in one behaviour.
DbOutcome(ok) == ok \/ nfaults < MaxFaults
Faults(ok) == IF ok THEN nfaults ELSE nfaults + 1

\* The transcription_translations table: a sequence of rows.
JobId == "job1"

Row(id, language, text) ==
  [transcriptionId |-> id, language |-> language, translatedText |-> text]

Matches(row, id, language) ==
  row.transcriptionId = id /\ row.language = language

RECURSIVE DeleteRows(_, _, _)
\* db.delete(transcriptionTranslations).where(and(eq(id), eq(language)))
DeleteRows(rows, id, language) ==
  IF rows = <<>> THEN <<>>
  ELSE IF Matches(Head(rows), id, language)
         THEN DeleteRows(Tail(rows), id, language)
         ELSE <<Head(rows)>> \o DeleteRows(Tail(rows), id, language)

\* saveTranslation as a plain INSERT, without the ON CONFLICT clause.
saveTranslationInsertOnly(rows, id, language, text) ==
  Append(rows, Row(id, language, text))

\* DatabaseStorage.saveTranslation: INSERT ... ON CONFLICT (transcriptionId,
\* language) DO UPDATE SET translatedText.
saveTranslation(rows, id, language, text) ==
  IF \E i \in 1..Len(rows) : Matches(rows[i], id, language)
    THEN [i \in 1..Len(rows) |->
            IF Matches(rows[i], id, language)
              THEN [rows[i] EXCEPT !.translatedText = text]
              ELSE rows[i]]
    ELSE Append(rows, Row(id, language, text))

\* DatabaseStorage.getTranslation: the first matching row's text, or
\* undefined (<<>>).
getTranslation(rows, id, language) ==
  IF \E i \in 1..Len(rows) : Matches(rows[i], id, language)
    THEN rows[CHOOSE i \in 1..Len(rows) :
                /\ Matches(rows[i], id, language)
                /\ \A j \in 1..(i-1) : ~Matches(rows[j], id, language)
             ].translatedText
    ELSE <<>>

---------------------------------------------------------------------------
(* POST /api/transcribe and its background task *)

BgIdle == [pc |-> "idle", result |-> [ok |-> FALSE, message |-> ""],
           errorMessage |-> ""]

\* try-block failure: control passes to the catch handler with the message.
BgThrow(message) == [bg EXCEPT !.pc = "catch", !.errorMessage = message]

\* The handler creates the record, starts the background task and answers.
\* A failing insert answers 500 and changes nothing.
CreateJob ==
  /\ job.status = "absent"
  /\ job' = createTranscription(Owner)
  /\ bg' = [bg EXCEPT !.pc = "markProcessing"]
  /\ UNCHANGED <<video, cache, req, ncalls, nfaults, boot, overlap, fn, doc>>

\* await storage.updateTranscriptionStatus(id, "processing", 50)
BgMarkProcessing(ok) ==
  /\ DbOutcome(ok)
  /\ nfaults' = Faults(ok)
  /\ bg.pc = "markProcessing"
  /\ IF ok
       THEN /\ job' = updateTranscriptionStatus(job, "processing", 50, <<>>, "")
            /\ bg' = [bg EXCEPT !.pc = "fetch"]
       ELSE /\ bg' = BgThrow("db error")
            /\ UNCHANGED job
  /\ UNCHANGED <<video, cache, req, ncalls, boot, overlap, fn, doc>>

\* const result = await fetchYoutubeTranscript(url)
BgFetch ==
  /\ bg.pc = "fetch"
  /\ LET result == fetchYoutubeTranscript(video)
     IN IF result.ok
          THEN bg' = [bg EXCEPT !.pc = "markCompleted", !.result = result]
          ELSE bg' = BgThrow(result.message)
  /\ UNCHANGED <<video, job, cache, req, ncalls, nfaults, boot, overlap, fn, doc>>

\* await storage.updateTranscriptionStatus(id, "completed", 100, text, text)
BgMarkCompleted(ok) ==
  /\ DbOutcome(ok)
  /\ nfaults' = Faults(ok)
  /\ bg.pc = "markCompleted"
  /\ IF ok
       THEN /\ job' = updateTranscriptionStatus(job, "completed", 100,
                        bg.result.transcriptWithTimestamps, "")
            /\ bg' = [bg EXCEPT !.pc = "setSourceLanguage"]
       ELSE /\ bg' = BgThrow("db error")
            /\ UNCHANGED job
  /\ UNCHANGED <<video, cache, req, ncalls, boot, overlap, fn, doc>>

\* await db.update(transcriptions).set({ sourceLanguage: result.language })
BgSetSourceLanguage(ok) ==
  /\ DbOutcome(ok)
  /\ nfaults' = Faults(ok)
  /\ bg.pc = "setSourceLanguage"
  /\ IF ok
       THEN /\ job' = [job EXCEPT !.sourceLanguage = bg.result.language]
            /\ bg' = [bg EXCEPT !.pc = "done"]
       ELSE /\ bg' = BgThrow("db error")
            /\ UNCHANGED job
  /\ UNCHANGED <<video, cache, req, ncalls, boot, overlap, fn, doc>>

\* catch: await storage.updateTranscriptionStatus(id, "error", 0, undefined,
\* undefined, errorMessage); a failure of this write is an unhandled rejection.
BgCatch(ok) ==
  /\ DbOutcome(ok)
  /\ nfaults' = Faults(ok)
  /\ bg.pc = "catch"
  /\ IF ok
       THEN job' = updateTranscriptionStatus(job, "error", 0, <<>>, bg.errorMessage)
       ELSE UNCHANGED job
  /\ bg' = [bg EXCEPT !.pc = "done"]
  /\ UNCHANGED <<video, cache, req, ncalls, boot, overlap, fn, doc>>

---------------------------------------------------------------------------
(* GET /api/transcribe/:id/translation/:language *)

\* The calls of a behaviour are numbered in the order they arrive; req[r] is
\* the state of call r and, once it has answered, its record.
Reqs == 1..MaxCalls
TargetLanguages == {EN, EN_US, ES, HI}

\* What the translation provider does with one call: it throws ("fail"),
\* or returns a text without Devanagari ("lat"), with Devanagari ("dev"),
\* or an empty text ("blank").
Outcomes == {"fail", "lat", "dev", "blank"}

NoLine ==
  [ts |-> NoTs, script |-> "blank", id |-> 0, kind |-> "none", lead |-> FALSE]

\* outcomes: what the provider did with the call made for each line.
ReqIdle ==
  [pc |-> "idle", language |-> NoLang, userId |-> "",
   transcription |-> NoJob, sourceLanguage |-> NoLang,
   cachedTranslation |-> <<>>, transcriptLines |-> <<>>,
   pending |-> {}, translatedLines |-> <<>>, translatedText |-> <<>>,
   status |-> 0, text |-> <<>>, responseLanguage |-> NoLang,
   calls |-> 0, callSource |-> NoLang, writes |-> 0, fault |-> FALSE,
   cache0 |-> <<>>, after |-> {}, outcomes |-> <<>>]

\* res.status(code).json(...): the handler has answered.
\* The handler's locals are gone; the record keeps what it read and did.
Respond(q, status, language, text) ==
  [q EXCEPT !.pc = "done", !.status = status, !.text = text,
            !.responseLanguage = language,
            !.cachedTranslation = <<>>, !.pending = {},
            !.translatedLines = <<>>, !.translatedText = <<>>]

\* translateText with a catch block that rethrows: the failure reaches the
\* caller, shown as a line of kind "throw".
translateTextRethrow(text, outcome) ==
  IF outcome = "fail"
    THEN [ts |-> NoTs, script |-> "blank", id |-> 0, kind |-> "throw",
          lead |-> FALSE]
    ELSE [text EXCEPT !.script = outcome, !.kind = "tr", !.lead = FALSE]

\* translateText(text, normalizedTarget, normalizedSource) for one line,
\* given what the provider does: the original text when the provider (or
\* the missing API key) throws, the provider's text otherwise.
translateText(text, outcome) ==
  IF outcome = "fail" THEN text
  ELSE [text EXCEPT !.script = outcome, !.kind = "tr", !.lead = FALSE]

\* The body of the transcriptLines.map callback for one line.
TranslateLine(line, outcome) ==
  IF timestampMatch(line)
    THEN \* `${timestamp} ${translatedText}`
         [translateText(MatchedText(line), outcome) EXCEPT !.ts = line.ts]
    ELSE \* the whole line goes to the provider
         IF outcome = "fail" THEN line
         ELSE [translateText(line, outcome) EXCEPT !.ts = NoTs]

\* Lines 942-986: cache miss; validate the transcript, split it and issue
\* one translateText call per line (Promise.all over transcriptLines.map).
BeginTranslate(q) ==
  LET originalText == q.transcription.transcription
      lines == SelectLines(originalText)
  IN IF originalText = <<>> \/ IsBlankText(originalText)
       THEN Respond(q, 400, NoLang, <<>>)
     ELSE IF Len(lines) = 0
       THEN Respond(q, 400, NoLang, <<>>)
     ELSE [q EXCEPT !.pc = "translating",
                    !.transcriptLines = lines,
                    !.pending = 1..Len(lines),
                    !.translatedLines = [i \in 1..Len(lines) |-> NoLine],
                    !.outcomes = [i \in 1..Len(lines) |-> "none"],
                    !.calls = Len(lines),
                    !.callSource = normalizeLanguageCode(q.sourceLanguage)]

\* The routing with the cache consulted before the same-language test.
RouteCacheFirst(q) ==
  IF normalizeLanguageCode(q.sourceLanguage) = HI
       /\ normalizeLanguageCode(q.language) = EN
    THEN [q EXCEPT !.pc = "saveMock"]
    ELSE [q EXCEPT !.pc = "getCache"]

\* Lines 854-940 up to the next database call: PRIORITY 1 (mock),
\* PRIORITY 2 (same language), PRIORITY 3 (cache).
Route(q) ==
  LET normalizedSource == normalizeLanguageCode(q.sourceLanguage)
      normalizedTarget == normalizeLanguageCode(q.language)
  IN IF normalizedSource = HI /\ normalizedTarget = EN
       THEN [q EXCEPT !.pc = "saveMock"]
     ELSE IF normalizedTarget = normalizedSource
       THEN Respond(q, 200, q.language, q.transcription.transcription)
     ELSE [q EXCEPT !.pc = "getCache"]

\* The effective source language taken from the stored value alone, without
\* looking at the transcript.
ResolveSourceStored(q) ==
  LET stored == q.transcription.sourceLanguage
  IN [q EXCEPT !.sourceLanguage =
                 IF stored = NoLang \/ stored = EN THEN EN ELSE stored]

\* Lines 817-852: the effective source language.
ResolveSource(q) ==
  LET stored == q.transcription.sourceLanguage
  IN IF hasHindiChars(q.transcription.transcription)
       THEN [q EXCEPT !.sourceLanguage = HI]
       ELSE [q EXCEPT !.sourceLanguage =
                        IF stored = NoLang \/ stored = EN THEN EN ELSE stored]

\* The not-found test without the comparison of the owner.
NotFoundIgnoringOwner(j, userId) == j.status = "absent"

\* !transcription || transcription.userId !== userId
NotFound(j, userId) == j.status = "absent" \/ j.userId # userId

\* The request arrives: storage.getTranscription, the 404 and 400 checks and
\* the source detection, up to the first database write.
ReqStart(r, language, userId, ok) ==
  /\ DbOutcome(ok)
  /\ nfaults' = Faults(ok)
  /\ r = ncalls + 1
  /\ req[r].pc = "idle"
  /\ overlap \/ \A s \in Reqs : req[s].pc \in {"idle", "done"}
  /\ ncalls' = ncalls + 1
  /\ LET q0 == [ReqIdle EXCEPT !.language = language, !.userId = userId,
                               !.fault = ~ok,
                               !.after = {s \in Reqs : req[s].pc = "done"},
                               !.cache0 = getTranslation(cache, JobId, language)]
         q1 == [q0 EXCEPT !.transcription = job]
         q2 == ResolveSource(q1)
     IN req' = [req EXCEPT ![r] =
          IF ~ok THEN Respond(q0, 500, NoLang, <<>>)
          ELSE IF NotFound(job, userId)
            THEN Respond(q0, 404, NoLang, <<>>)
          ELSE IF job.status # "completed"
            THEN Respond(q1, 400, NoLang, <<>>)
          ELSE IF hasHindiChars(job.transcription) /\ job.sourceLanguage # HI
            THEN [q2 EXCEPT !.pc = "fixSource"]
          ELSE Route(q2)]
  /\ UNCHANGED <<video, job, bg, cache, boot, overlap, fn, doc>>

\* await db.update(transcriptions).set({ sourceLanguage: "hi" }); a failure
\* is logged and ignored.
ReqFixSource(r, ok) ==
  /\ DbOutcome(ok)
  /\ nfaults' = Faults(ok)
  /\ req[r].pc = "fixSource"
  /\ job' = IF ok THEN [job EXCEPT !.sourceLanguage = HI] ELSE job
  /\ req' = [req EXCEPT ![r] = Route([req[r] EXCEPT !.fault = @ \/ ~ok])]
  /\ UNCHANGED <<video, bg, cache, ncalls, boot, overlap, fn, doc>>

\* await storage.saveTranslation(id, "en", mockHindiToEnglish); a failure is
\* logged and ignored; the mock is returned.
ReqSaveMock(r, ok) ==
  /\ DbOutcome(ok)
  /\ nfaults' = Faults(ok)
  /\ req[r].pc = "saveMock"
  /\ cache' = IF ok THEN saveTranslation(cache, JobId, EN, mockHindiToEnglish)
              ELSE cache
  /\ req' = [req EXCEPT ![r] =
       Respond([req[r] EXCEPT !.fault = @ \/ ~ok, !.writes = @ + 1],
               200, EN, mockHindiToEnglish)]
  /\ UNCHANGED <<video, job, bg, ncalls, boot, overlap, fn, doc>>

\* cachedTranslation = await storage.getTranslation(id, targetLanguage) and
\* the script check on it; a failure of the read means "translate".
ReqGetCache(r, ok) ==
  /\ DbOutcome(ok)
  /\ nfaults' = Faults(ok)
  /\ req[r].pc = "getCache"
  /\ LET q == [req[r] EXCEPT !.fault = @ \/ ~ok]
         cachedTranslation == getTranslation(cache, JobId, q.language)
     IN req' = [req EXCEPT ![r] =
          IF ~ok THEN BeginTranslate(q)
          ELSE IF cachedTranslation # <<>>
            THEN IF normalizeLanguageCode(q.language) = EN
                    /\ hasHindiChars(cachedTranslation)
                   THEN [q EXCEPT !.pc = "deleteCache",
                                  !.cachedTranslation = cachedTranslation]
                   ELSE Respond([q EXCEPT !.cachedTranslation = cachedTranslation],
                                200, q.language, cachedTranslation)
          ELSE BeginTranslate(q)]
  /\ UNCHANGED <<video, job, bg, cache, ncalls, boot, overlap, fn, doc>>

\* await db.delete(transcriptionTranslations)...; a failure is logged and
\* ignored; cachedTranslation = null and the translation starts.
ReqDeleteCache(r, ok) ==
  /\ DbOutcome(ok)
  /\ nfaults' = Faults(ok)
  /\ req[r].pc = "deleteCache"
  /\ cache' = IF ok THEN DeleteRows(cache, JobId, req[r].language) ELSE cache
  /\ req' = [req EXCEPT ![r] =
       BeginTranslate([req[r] EXCEPT !.fault = @ \/ ~ok,
                                     !.cachedTranslation = <<>>])]
  /\ UNCHANGED <<video, job, bg, ncalls, boot, overlap, fn, doc>>

\* Results collected in the order the calls complete (a push in each
\* callback) instead of by index.
SettleInCompletionOrder(q, i, outcome) ==
  [q EXCEPT !.pending = @ \ {i},
            !.outcomes[i] = outcome,
            !.translatedLines[Len(q.transcriptLines) - Cardinality(q.pending) + 1] =
               TranslateLine(q.transcriptLines[i], outcome)]

\* Promise.all: the value of the i-th promise becomes the i-th element of
\* the result, whenever it settles.
Settle(q, i, outcome) ==
  [q EXCEPT !.pending = @ \ {i},
            !.outcomes[i] = outcome,
            !.translatedLines[i] = TranslateLine(q.transcriptLines[i], outcome)]

\* One of the concurrently issued translateText calls completes.
ReqLineDone(r, i, outcome) ==
  /\ req[r].pc = "translating"
  /\ i \in req[r].pending
  /\ req' = [req EXCEPT ![r] = Settle(req[r], i, outcome)]
  /\ UNCHANGED <<video, job, bg, cache, ncalls, nfaults, boot, overlap, fn, doc>>

\* Promise.all has resolved: every call has completed.
AllSettled(q) == q.pending = {}

\* The join and the empty-result check without the final safeguard.
ReqAssembleNoSafeguard(r) ==
  /\ req[r].pc = "translating"
  /\ AllSettled(req[r])
  /\ req' = [req EXCEPT ![r] =
       IF IsBlankText(req[r].translatedLines)
         THEN Respond(req[r], 500, NoLang, <<>>)
         ELSE [req[r] EXCEPT !.pc = "save",
                             !.translatedText = req[r].translatedLines]]
  /\ UNCHANGED <<video, job, bg, cache, ncalls, nfaults, boot, overlap, fn, doc>>

\* Lines 988-1020: join, the empty-result check and the final safeguard.
ReqAssemble(r) ==
  /\ req[r].pc = "translating"
  /\ AllSettled(req[r])
  /\ LET q == req[r]
         translatedTextWithTimestamps == q.translatedLines
     IN req' = [req EXCEPT ![r] =
          IF IsBlankText(translatedTextWithTimestamps)
            THEN Respond(q, 500, NoLang, <<>>)
          ELSE IF normalizeLanguageCode(q.language) = EN
                  /\ hasHindiChars(translatedTextWithTimestamps)
            THEN [q EXCEPT !.pc = "saveCorrected",
                           !.translatedText = translatedTextWithTimestamps]
          ELSE [q EXCEPT !.pc = "save",
                         !.translatedText = translatedTextWithTimestamps]]
  /\ UNCHANGED <<video, job, bg, cache, ncalls, nfaults, boot, overlap, fn, doc>>

\* The save that skips a text in which no line was translated.
ReqSaveOnlyTranslated(r, ok) ==
  /\ DbOutcome(ok)
  /\ nfaults' = Faults(ok)
  /\ req[r].pc = "save"
  /\ cache' = IF ok /\ req[r].translatedText # req[r].transcriptLines
                THEN saveTranslation(cache, JobId, req[r].language,
                                     req[r].translatedText)
              ELSE cache
  /\ req' = [req EXCEPT ![r] =
       Respond([req[r] EXCEPT !.fault = @ \/ ~ok, !.writes = @ + 1],
               200, req[r].language, req[r].translatedText)]
  /\ UNCHANGED <<video, job, bg, ncalls, boot, overlap, fn, doc>>

\* await storage.saveTranslation(id, targetLanguage, finalTranslation) in the
\* final safeguard; a failure is logged and ignored; the mock is returned.
ReqSaveCorrected(r, ok) ==
  /\ DbOutcome(ok)
  /\ nfaults' = Faults(ok)
  /\ req[r].pc = "saveCorrected"
  /\ LET finalTranslation == mockHindiToEnglish
     IN /\ cache' = IF ok THEN saveTranslation(cache, JobId, req[r].language,
                                               finalTranslation)
                    ELSE cache
        /\ req' = [req EXCEPT ![r] =
             Respond([req[r] EXCEPT !.fault = @ \/ ~ok, !.writes = @ + 1],
                     200, req[r].language, finalTranslation)]
  /\ UNCHANGED <<video, job, bg, ncalls, boot, overlap, fn, doc>>

\* await storage.saveTranslation(id, targetLanguage, translatedText...); a
\* failure is logged and ignored; the translation is returned.
ReqSave(r, ok) ==
  /\ DbOutcome(ok)
  /\ nfaults' = Faults(ok)
  /\ req[r].pc = "save"
  /\ cache' = IF ok THEN saveTranslation(cache, JobId, req[r].language,
                                         req[r].translatedText)
              ELSE cache
  /\ req' = [req EXCEPT ![r] =
       Respond([req[r] EXCEPT !.fault = @ \/ ~ok, !.writes = @ + 1],
               200, req[r].language, req[r].translatedText)]
  /\ UNCHANGED <<video, job, bg, ncalls, boot, overlap, fn, doc>>

---------------------------------------------------------------------------
(* POST /api/translate-pdf and its background task *)

NoPageCount == -1
DownloadUrl == "/api/translate-pdf/:id/download"

\* An uploaded file: whether the parser can read it, the script of the text
\* it holds ("blank": no text or whitespace only) and its page count.
Documents == [readable : BOOLEAN, script : Scripts, pages : {1, 2}]

NoDocJob ==
  [status |-> "absent", progress |-> 0, pageCount |-> 0,
   translatedFileUrl |-> "", error |-> ""]

\* storage.createPdfTranslation with the values the handler passes.
createPdfTranslation ==
  [status |-> "processing", progress |-> 0, pageCount |-> 0,
   translatedFileUrl |-> "", error |-> ""]

\* The payload of updatePdfTranslationStatus: an absent pageCount is
\* NoPageCount, an absent translatedFileUrl or error is "", and reset is the
\* set of columns named true in payload.reset, given says whether
\* payload.reset is present at all.
Payload(status, progress, pageCount, translatedFileUrl, error, given, reset) ==
  [status |-> status, progress |-> progress, pageCount |-> pageCount,
   translatedFileUrl |-> translatedFileUrl, error |-> error,
   given |-> given, reset |-> reset]

\* updatePdfTranslationStatus that ignores payload.reset and clears nothing.
updatePdfTranslationStatusNoReset(row, payload) ==
  [row EXCEPT
     !.status = payload.status,
     !.progress = payload.progress,
     !.pageCount = IF payload.pageCount # NoPageCount THEN payload.pageCount ELSE @,
     !.translatedFileUrl =
        IF payload.translatedFileUrl # "" THEN payload.translatedFileUrl ELSE @,
     !.error = IF payload.error # "" THEN payload.error ELSE @]

\* DatabaseStorage.updatePdfTranslationStatus: the assignments to `updates`
\* in the order the code makes them, a later one overriding an earlier one.
updatePdfTranslationStatus(row, payload) ==
  LET autoReset == payload.status = "processing" /\ ~payload.given
  IN [row EXCEPT
        !.status = payload.status,
        !.progress = payload.progress,
        !.pageCount =
           IF payload.pageCount # NoPageCount THEN payload.pageCount
           ELSE IF "pageCount" \in payload.reset THEN 0
           ELSE @,
        !.translatedFileUrl =
           IF autoReset THEN ""
           ELSE IF payload.translatedFileUrl # "" THEN payload.translatedFileUrl
           ELSE IF "translatedFileUrl" \in payload.reset THEN ""
           ELSE @,
        !.error =
           IF autoReset THEN ""
           ELSE IF payload.error # "" THEN payload.error
           ELSE IF "error" \in payload.reset THEN ""
           ELSE @]

\* extractDocumentText(filePath, fileType): it throws when the file cannot be
\* parsed and when the parsed text is empty or whitespace only.
extractDocumentText(document) ==
  IF ~document.readable
    THEN [ok |-> FALSE, message |-> "Failed to parse document"]
  ELSE IF document.script = "blank"
    THEN [ok |-> FALSE, message |-> "Document contains no readable text"]
  ELSE [ok |-> TRUE, message |-> "",
        text |-> [ts |-> NoTs, script |-> document.script, id |-> 1,
                  kind |-> "orig", lead |-> FALSE],
        pageCount |-> document.pages]

\* No document has been uploaded.  upload: the uploaded file is on disk;
\* outputFile: the translated file is on disk; calls: translateText calls
\* made; failed: a step of the task has failed (the provider call included).
DocIdle ==
  [pc |-> "idle", job |-> NoDocJob,
   document |-> [readable |-> FALSE, script |-> "blank", pages |-> 1],
   text |-> NoLine, pageCount |-> 0, translatedText |-> NoLine,
   upload |-> FALSE, outputFile |-> FALSE, errorMessage |-> "",
   calls |-> 0, failed |-> FALSE]

\* try-block failure: control passes to the catch handler with the message.
DocThrow(message) ==
  [doc EXCEPT !.pc = "catch", !.errorMessage = message, !.failed = TRUE]

\* The handler stores the upload, creates the record, starts the background
\* task and answers.
CreateDoc(document) ==
  /\ doc.pc = "idle"
  /\ doc' = [doc EXCEPT !.pc = "extract", !.job = createPdfTranslation,
                        !.document = document, !.upload = TRUE]
  /\ UNCHANGED <<video, job, bg, cache, req, ncalls, nfaults, boot, overlap, fn>>

\* const { text, pageCount } = await extractDocumentText(filePath, fileType)
\* and the check for an empty text that follows it.
DocExtract ==
  /\ doc.pc = "extract"
  /\ LET result == extractDocumentText(doc.document)
     IN IF result.ok
          THEN doc' = [doc EXCEPT !.pc = "mark30", !.text = result.text,
                                  !.pageCount = result.pageCount]
          ELSE doc' = DocThrow(result.message)
  /\ UNCHANGED <<video, job, bg, cache, req, ncalls, nfaults, boot, overlap, fn>>

\* updatePdfTranslationStatus(id, {status: "processing", progress: 30,
\* pageCount, reset: {error: true, translatedFileUrl: true}})
DocMark30(ok) ==
  /\ DbOutcome(ok)
  /\ nfaults' = Faults(ok)
  /\ doc.pc = "mark30"
  /\ IF ok
       THEN doc' = [doc EXCEPT
                      !.pc = "translate",
                      !.job = updatePdfTranslationStatus(@,
                                Payload("processing", 30, doc.pageCount, "", "",
                                        TRUE, {"error", "translatedFileUrl"}))]
       ELSE doc' = DocThrow("db error")
  /\ UNCHANGED <<video, job, bg, cache, req, ncalls, boot, overlap, fn>>

\* const translatedText = await translateText(text, targetLanguage,
\* sourceLanguage)
DocTranslate(outcome) ==
  /\ doc.pc = "translate"
  /\ doc' = [doc EXCEPT !.pc = "mark70",
                        !.translatedText = translateText(doc.text, outcome),
                        !.calls = @ + 1,
                        !.failed = @ \/ outcome = "fail"]
  /\ UNCHANGED <<video, job, bg, cache, req, ncalls, nfaults, boot, overlap, fn>>

\* updatePdfTranslationStatus(id, {status: "processing", progress: 70})
DocMark70(ok) ==
  /\ DbOutcome(ok)
  /\ nfaults' = Faults(ok)
  /\ doc.pc = "mark70"
  /\ IF ok
       THEN doc' = [doc EXCEPT
                      !.pc = "writeFile",
                      !.job = updatePdfTranslationStatus(@,
                                Payload("processing", 70, NoPageCount, "", "",
                                        FALSE, {}))]
       ELSE doc' = DocThrow("db error")
  /\ UNCHANGED <<video, job, bg, cache, req, ncalls, boot, overlap, fn>>

\* await fs.promises.writeFile(outputPath, ...); await fs.promises.stat(...)
DocWriteFile(ok) ==
  /\ DbOutcome(ok)
  /\ nfaults' = Faults(ok)
  /\ doc.pc = "writeFile"
  /\ IF ok
       THEN doc' = [doc EXCEPT !.pc = "markCompleted", !.outputFile = TRUE]
       ELSE doc' = DocThrow("write error")
  /\ UNCHANGED <<video, job, bg, cache, req, ncalls, boot, overlap, fn>>

\* updatePdfTranslationStatus(id, {status: "completed", progress: 100,
\* pageCount, translatedFileUrl})
DocMarkCompleted(ok) ==
  /\ DbOutcome(ok)
  /\ nfaults' = Faults(ok)
  /\ doc.pc = "markCompleted"
  /\ IF ok
       THEN doc' = [doc EXCEPT
                      !.pc = "cleanup",
                      !.job = updatePdfTranslationStatus(@,
                                Payload("completed", 100, doc.pageCount,
                                        DownloadUrl, "", FALSE, {}))]
       ELSE doc' = DocThrow("db error")
  /\ UNCHANGED <<video, job, bg, cache, req, ncalls, boot, overlap, fn>>

\* if (fs.existsSync(filePath)) fs.unlinkSync(filePath), still inside the
\* try block.
DocCleanup(ok) ==
  /\ DbOutcome(ok)
  /\ nfaults' = Faults(ok)
  /\ doc.pc = "cleanup"
  /\ IF ok
       THEN doc' = [doc EXCEPT !.pc = "done", !.upload = FALSE]
       ELSE doc' = DocThrow("unlink error")
  /\ UNCHANGED <<video, job, bg, cache, req, ncalls, boot, overlap, fn>>

\* catch: updatePdfTranslationStatus(id, {status: "error", progress: 0,
\* error: errorMessage, reset: {translatedFileUrl: true}}); a failure of
\* this write is an unhandled rejection.
DocCatch(ok) ==
  /\ DbOutcome(ok)
  /\ nfaults' = Faults(ok)
  /\ doc.pc = "catch"
  /\ IF ok
       THEN doc' = [doc EXCEPT
                      !.pc = "done",
                      !.job = updatePdfTranslationStatus(@,
                                Payload("error", 0, NoPageCount, "",
                                        doc.errorMessage, TRUE,
                                        {"translatedFileUrl"}))]
       ELSE doc' = [doc EXCEPT !.pc = "done"]
  /\ UNCHANGED <<video, job, bg, cache, req, ncalls, boot, overlap, fn>>

---------------------------------------------------------------------------
(* Specification *)

\* No helper function is being evaluated on its own.
FnIdle == [op |-> "none"]

\* A server started on an empty database.
InitFresh ==
  /\ boot = "fresh"
  /\ video \in Videos
  /\ job = NoJob
  /\ bg = BgIdle
  /\ cache = <<>>

\* The translation an earlier release of the handler, which had no script
\* check, cached when the provider answered every line in Devanagari.
LegacyTranslation(text) ==
  LET lines == SelectLines(text)
  IN [i \in 1..Len(lines) |-> TranslateLine(lines[i], "dev")]

\* A server started on a database that holds a job completed by an earlier
\* run, with one translation cached for it by an earlier release.
InitPersisted ==
  /\ boot = "persisted"
  /\ video \in Videos
  /\ fetchYoutubeTranscript(video).ok
  /\ LET result == fetchYoutubeTranscript(video)
     IN /\ job = [createTranscription(Owner) EXCEPT
                    !.status = "completed", !.progress = 100,
                    !.transcription = result.transcriptWithTimestamps,
                    !.sourceLanguage = result.language]
        /\ bg = [pc |-> "done", result |-> result, errorMessage |-> ""]
        /\ \E language \in {EN, EN_US} :
             cache = <<Row(JobId, language,
                           LegacyTranslation(result.transcriptWithTimestamps))>>

Init ==
  /\ InitFresh \/ InitPersisted
  /\ req = [r \in Reqs |-> ReqIdle]
  /\ ncalls = 0
  /\ nfaults = 0
  /\ overlap = FALSE
  /\ fn = FnIdle
  /\ doc = DocIdle

\* The server receives one call of getTranslation.
InitOneCall ==
  /\ InitFresh \/ InitPersisted
  /\ req = [r \in Reqs |-> ReqIdle]
  /\ ncalls = MaxCalls - 1
  /\ nfaults = 0
  /\ overlap = FALSE
  /\ fn = FnIdle
  /\ doc = DocIdle

Next ==
  \/ CreateJob
  \/ \E ok \in BOOLEAN : BgMarkProcessing(ok)
  \/ BgFetch
  \/ \E ok \in BOOLEAN : BgMarkCompleted(ok)
  \/ \E ok \in BOOLEAN : BgSetSourceLanguage(ok)
  \/ \E ok \in BOOLEAN : BgCatch(ok)
  \/ \E r \in Reqs, language \in TargetLanguages, userId \in Users, ok \in BOOLEAN :
       ReqStart(r, language, userId, ok)
  \/ \E r \in Reqs, ok \in BOOLEAN : ReqFixSource(r, ok)
  \/ \E r \in Reqs, ok \in BOOLEAN : ReqSaveMock(r, ok)
  \/ \E r \in Reqs, ok \in BOOLEAN : ReqGetCache(r, ok)
  \/ \E r \in Reqs, ok \in BOOLEAN : ReqDeleteCache(r, ok)
  \/ \E r \in Reqs, i \in 1..MaxLines, outcome \in Outcomes : ReqLineDone(r, i, outcome)
  \/ \E r \in Reqs : ReqAssemble(r)
  \/ \E r \in Reqs, ok \in BOOLEAN : ReqSaveCorrected(r, ok)
  \/ \E r \in Reqs, ok \in BOOLEAN : ReqSave(r, ok)

Spec == Init /\ [][Next]_vars

SpecOneCall == InitOneCall /\ [][Next]_vars

\* The server receives two calls of getTranslation for a job that an earlier
\* run completed; the second may arrive while the first is at any of its
\* awaits.  No database operation fails.
InitConcurrent ==
  /\ InitPersisted
  /\ req = [r \in Reqs |-> ReqIdle]
  /\ ncalls = MaxCalls - 2
  /\ nfaults = MaxFaults
  /\ overlap = TRUE
  /\ fn = FnIdle
  /\ doc = DocIdle

\* The steps of the calls of getTranslation: with the background task over,
\* no other step is enabled.
NextCalls ==
  \/ \E r \in Reqs, language \in TargetLanguages, userId \in Users, ok \in BOOLEAN :
       ReqStart(r, language, userId, ok)
  \/ \E r \in Reqs, ok \in BOOLEAN : ReqFixSource(r, ok)
  \/ \E r \in Reqs, ok \in BOOLEAN : ReqSaveMock(r, ok)
  \/ \E r \in Reqs, ok \in BOOLEAN : ReqGetCache(r, ok)
  \/ \E r \in Reqs, ok \in BOOLEAN : ReqDeleteCache(r, ok)
  \/ \E r \in Reqs, i \in 1..MaxLines, outcome \in Outcomes : ReqLineDone(r, i, outcome)
  \/ \E r \in Reqs : ReqAssemble(r)
  \/ \E r \in Reqs, ok \in BOOLEAN : ReqSaveCorrected(r, ok)
  \/ \E r \in Reqs, ok \in BOOLEAN : ReqSave(r, ok)

SpecConcurrent == InitConcurrent /\ [][NextCalls]_vars

\* The server receives one call of getTranslation for a job that an earlier
\* run completed, with a transcript in which any caption text may begin with
\* whitespace.
InitLineStep ==
  /\ boot = "persisted"
  /\ video \in VideosWithLead
  /\ fetchYoutubeTranscript(video).ok
  /\ LET result == fetchYoutubeTranscript(video)
     IN /\ job = [createTranscription(Owner) EXCEPT
                    !.status = "completed", !.progress = 100,
                    !.transcription = result.transcriptWithTimestamps,
                    !.sourceLanguage = result.language]
        /\ bg = [pc |-> "done", result |-> result, errorMessage |-> ""]
        /\ \E language \in {EN, EN_US} :
             cache = <<Row(JobId, language,
                           LegacyTranslation(result.transcriptWithTimestamps))>>
  /\ req = [r \in Reqs |-> ReqIdle]
  /\ ncalls = MaxCalls - 1
  /\ nfaults = 0
  /\ overlap = FALSE
  /\ fn = FnIdle
  /\ doc = DocIdle

SpecLineStep == InitLineStep /\ [][NextCalls]_vars

\* The server receives one upload on POST /api/translate-pdf.
InitDocument ==
  /\ boot = "fresh"
  /\ video = NoVideo
  /\ job = NoJob
  /\ bg = BgIdle
  /\ cache = <<>>
  /\ req = [r \in Reqs |-> ReqIdle]
  /\ ncalls = 0
  /\ nfaults = 0
  /\ overlap = FALSE
  /\ fn = FnIdle
  /\ doc = DocIdle

\* The steps of the document task.
NextDocument ==
  \/ \E document \in Documents : CreateDoc(document)
  \/ DocExtract
  \/ \E ok \in BOOLEAN : DocMark30(ok)
  \/ \E outcome \in Outcomes : DocTranslate(outcome)
  \/ \E ok \in BOOLEAN : DocMark70(ok)
  \/ \E ok \in BOOLEAN : DocWriteFile(ok)
  \/ \E ok \in BOOLEAN : DocMarkCompleted(ok)
  \/ \E ok \in BOOLEAN : DocCleanup(ok)
  \/ \E ok \in BOOLEAN : DocCatch(ok)

SpecDocument == InitDocument /\ [][NextDocument]_vars

\* One transcription job and one document job and no call of getTranslation.
InitJobs ==
  /\ InitFresh
  /\ req = [r \in Reqs |-> ReqIdle]
  /\ ncalls = MaxCalls
  /\ nfaults = 0
  /\ overlap = FALSE
  /\ fn = FnIdle
  /\ doc = DocIdle

\* The steps of the two background tasks.
NextTranscription ==
  \/ \E ok \in BOOLEAN : BgMarkProcessing(ok)
  \/ BgFetch
  \/ \E ok \in BOOLEAN : BgMarkCompleted(ok)
  \/ \E ok \in BOOLEAN : BgSetSourceLanguage(ok)
  \/ \E ok \in BOOLEAN : BgCatch(ok)

NextDocumentTask ==
  \/ DocExtract
  \/ \E ok \in BOOLEAN : DocMark30(ok)
  \/ \E outcome \in Outcomes : DocTranslate(outcome)
  \/ \E ok \in BOOLEAN : DocMark70(ok)
  \/ \E ok \in BOOLEAN : DocWriteFile(ok)
  \/ \E ok \in BOOLEAN : DocMarkCompleted(ok)
  \/ \E ok \in BOOLEAN : DocCleanup(ok)
  \/ \E ok \in BOOLEAN : DocCatch(ok)

NextJobs ==
  \/ CreateJob
  \/ \E document \in Documents : CreateDoc(document)
  \/ NextTranscription
  \/ NextDocumentTask

\* The event loop runs every continuation of a started task: each await of
\* a background task settles (by resolving or by throwing) and the task
\* goes on.  When a job is created is up to the clients.
SpecJobsFair ==
  /\ InitJobs
  /\ [][NextJobs]_vars
  /\ WF_vars(NextTranscription)
  /\ WF_vars(NextDocumentTask)

---------------------------------------------------------------------------
(* The helper functions evaluated on their own *)

XX_UNKNOWN == <<"x","x","-","u","n","k","n","o","w","n">>

\* The codes of the `languages` list offered to users (shared/schema.ts).
languages ==
  { <<"e","n">>, <<"e","s">>, <<"f","r">>, <<"d","e">>, <<"i","t">>,
    <<"p","t">>, <<"r","u">>, <<"z","h">>, <<"j","a">>, <<"k","o">>,
    <<"a","r">>, <<"h","i">>, <<"b","n">>, <<"p","a">>, <<"t","r">>,
    <<"v","i">>, <<"p","l">>, <<"u","k">>, <<"n","l">>, <<"s","v">> }

\* The strings normalizeLanguageCode is evaluated on: every string of up to
\* MaxCodeLen characters of CodeAlphabet, three longer ones and the codes
\* offered to users.
CodeAlphabet == {"e", "n", "E", "s", "x", "-", "_"}
Codes ==
  UNION { [1..n -> CodeAlphabet] : n \in 0..MaxCodeLen }
    \cup {EN_US, XX_UNKNOWN, CONSTRUCTOR} \cup languages

\* What the try block of translateText does: it throws when a language
\* argument cannot be normalized, when the API key is missing, or when the
\* provider call throws; otherwise the provider answers.
TryOutcome(targetLanguage, sourceLanguage, apiKey, provider) ==
  IF normalizeLanguageCode(sourceLanguage) = TypeError
       \/ normalizeLanguageCode(targetLanguage) = TypeError
    THEN "fail"
  ELSE IF ~apiKey THEN "fail"
  ELSE provider

\* The arguments of one evaluation.
FnInputs ==
  [op : {"normalizeLanguageCode"}, pc : {"call"}, code : Codes]
    \cup [op : {"translateText"}, pc : {"call"},
          text : [ts : {NoTs}, script : Scripts, id : 1..MaxLines,
                  kind : {"orig"}, lead : {FALSE}],
          targetLanguage : {EN, ES, HI, ObjectFunction},
          sourceLanguage : {EN, ES, HI},
          apiKey : BOOLEAN,
          provider : Outcomes]

\* normalizeLanguageCode(code)
CallNormalize ==
  /\ fn.op = "normalizeLanguageCode" /\ fn.pc = "call"
  /\ fn' = [op |-> fn.op, pc |-> "returned", code |-> fn.code,
            out |-> normalizeLanguageCode(fn.code)]
  /\ UNCHANGED <<video, job, bg, cache, req, ncalls, nfaults, boot, overlap, doc>>

\* normalizeLanguageCode applied to the value it returned.
CallNormalizeAgain ==
  /\ fn.op = "normalizeLanguageCode" /\ fn.pc = "returned"
  /\ fn' = [op |-> fn.op, pc |-> "done", code |-> fn.code, out |-> fn.out,
            again |-> normalizeLanguageCode(fn.out)]
  /\ UNCHANGED <<video, job, bg, cache, req, ncalls, nfaults, boot, overlap, doc>>

\* await translateText(text, targetLanguage, sourceLanguage)
CallTranslateText ==
  /\ fn.op = "translateText" /\ fn.pc = "call"
  /\ fn' = [op |-> fn.op, pc |-> "done", args |-> fn,
            out |-> translateText(fn.text,
                      TryOutcome(fn.targetLanguage, fn.sourceLanguage,
                                 fn.apiKey, fn.provider))]
  /\ UNCHANGED <<video, job, bg, cache, req, ncalls, nfaults, boot, overlap, doc>>

\* No job and no call of getTranslation; one evaluation of a helper.
InitFunctions ==
  /\ boot = "fresh"
  /\ video = NoVideo
  /\ job = NoJob
  /\ bg = BgIdle
  /\ cache = <<>>
  /\ req = [r \in Reqs |-> ReqIdle]
  /\ ncalls = 0
  /\ nfaults = 0
  /\ overlap = FALSE
  /\ fn \in FnInputs
  /\ doc = DocIdle

NextFunctions ==
  \/ CallNormalize
  \/ CallNormalizeAgain
  \/ CallTranslateText

SpecFunctions == InitFunctions /\ [][NextFunctions]_vars

---------------------------------------------------------------------------
(* Properties *)

\* Call r has answered.
Done(r) == req[r].pc = "done"

\* Call r ran on a completed job of the caller (it got past the 404 and 400
\* checks) and no database operation of it threw.
Served(r) ==
  /\ Done(r)
  /\ req[r].transcription.status = "completed"
  /\ req[r].userId = req[r].transcription.userId
  /\ ~req[r].fault

NormalizedSource(r) == normalizeLanguageCode(req[r].sourceLanguage)
NormalizedTarget(r) == normalizeLanguageCode(req[r].language)

\* Number of rows stored under a key.
RowCount(rows, id, language) ==
  Cardinality({i \in 1..Len(rows) : Matches(rows[i], id, language)})

\* The script check of the cache: a text for a target that normalizes to
\* "en" must hold no Devanagari character.
PassesScriptCheck(language, text) ==
  ~(normalizeLanguageCode(language) = EN /\ hasHindiChars(text))

\* C1: once the persisted status of the job is completed or error, no step
\* of the background task (the source-language write and the catch handler
\* included) changes it.
C1_TerminalStatusNeverChanges ==
  [][job.status \in {"completed", "error"} => job'.status = job.status]_vars

\* C2: the transcription text is non-empty only if the status is completed,
\* and the error message is non-empty only if the status is error.
C2_TextAndErrorMatchStatus ==
  /\ job.transcription # <<>> => job.status = "completed"
  /\ job.error # "" => job.status = "error"

\* C3: whenever the job is observable as completed its stored source
\* language is the language the transcript provider reported, so no call of
\* getTranslation reads a completed job whose source language is unset.
C3_CompletedJobHasProviderLanguage ==
  /\ boot = "fresh" /\ job.status = "completed"
       => job.sourceLanguage = bg.result.language
  /\ \A r \in Reqs :
       boot = "fresh" /\ req[r].transcription.status = "completed"
         => req[r].transcription.sourceLanguage # NoLang

\* C4: for each normalized target code the cache of the job holds at most
\* one entry, whatever target strings the calls of getTranslation used.
C4_OneEntryPerNormalizedTarget ==
  boot = "fresh" =>
    \A code \in {normalizeLanguageCode(l) : l \in TargetLanguages} :
      Cardinality({i \in 1..Len(cache) :
                     normalizeLanguageCode(cache[i].language) = code}) <= 1

\* C5: a call for a completed job with normalized source # normalized
\* target that finds a cache entry for the requested target passing the
\* script check returns that text, calls the provider for no line and does
\* not write the cache (source "hi" with target "en" included).
C5_CacheHitIsReturnedUntouched ==
  \A r \in Reqs :
    ( /\ boot = "fresh"
      /\ Served(r)
      /\ NormalizedSource(r) # NormalizedTarget(r)
      /\ req[r].cache0 # <<>>
      /\ PassesScriptCheck(req[r].language, req[r].cache0) )
    => /\ req[r].status = 200
       /\ req[r].text = req[r].cache0
       /\ req[r].calls = 0
       /\ req[r].writes = 0

\* Calls r-1 and r are two successive successful calls for the same target
\* that read the same transcript and resolved the same source language; r is
\* the latest call.
SameCallTwice(r) ==
  /\ r > 1 /\ r = ncalls
  /\ Served(r - 1) /\ Served(r)
  /\ (r - 1) \in req[r].after
  /\ req[r - 1].status = 200 /\ req[r].status = 200
  /\ req[r].language = req[r - 1].language
  /\ req[r].transcription.transcription = req[r - 1].transcription.transcription
  /\ req[r].sourceLanguage = req[r - 1].sourceLanguage

UsesCache(r) ==
  /\ NormalizedSource(r) # NormalizedTarget(r)
  /\ ~(NormalizedSource(r) = HI /\ NormalizedTarget(r) = EN)

C7_BadEntryIsHealed ==
  \A r \in Reqs :
    ( /\ Served(r) /\ r = ncalls
      /\ NormalizedSource(r) # NormalizedTarget(r)
      /\ NormalizedTarget(r) = EN
      /\ hasHindiChars(req[r].cache0) )
    => /\ req[r].text # req[r].cache0
       /\ ~hasHindiChars(req[r].text)
       /\ ~hasHindiChars(getTranslation(cache, JobId, req[r].language))

\* C8: a call with target "en" on a job whose transcript has Devanagari and
\* whose stored source is "en" persists "hi" and translates every line
\* through the provider with source "hi".
C8_HindiTranscriptIsTranslated ==
  \A r \in Reqs :
    ( /\ boot = "fresh" /\ Served(r) /\ r = ncalls
      /\ req[r].language = EN
      /\ hasHindiChars(req[r].transcription.transcription)
      /\ req[r].transcription.sourceLanguage = EN )
    => /\ job.sourceLanguage = HI
       /\ req[r].calls = Len(SelectLines(req[r].transcription.transcription))
       /\ req[r].callSource = HI

\* The output line is what the per-line step makes of the input line when
\* the provider answers.
IsTranslationOf(out, line) ==
  \E outcome \in Outcomes \ {"fail"} : out = TranslateLine(line, outcome)

\* C9: a successful response for normalized source # normalized target has
\* as many lines as the transcript has non-blank lines, each the
\* translation of the corresponding line or that line unchanged.
C9_ResponseLinesMatchTranscript ==
  \A r \in Reqs :
    ( /\ boot = "fresh" /\ Done(r) /\ req[r].status = 200
      /\ NormalizedSource(r) # NormalizedTarget(r) )
    => LET lines == SelectLines(req[r].transcription.transcription)
       IN /\ Len(req[r].text) = Len(lines)
          /\ \A i \in 1..Len(lines) :
               \/ req[r].text[i] = lines[i]
               \/ IsTranslationOf(req[r].text[i], lines[i])

\* The per-line step of call r has been reassembled.
Assembled(r) == req[r].pc \in {"save", "saveCorrected"}

\* C10: the assembled output of the per-line step has one line per
\* non-blank input line, line i built from input line i with the timestamp
\* of a timestamped line kept, and it exists only once every provider call
\* has completed, whatever the order of completion.
C10_LinesReassembledInOrder ==
  \A r \in Reqs :
    Assembled(r)
      => LET lines == req[r].transcriptLines
             out == req[r].translatedText
         IN /\ lines = SelectLines(req[r].transcription.transcription)
            /\ req[r].pending = {}
            /\ Len(out) = Len(lines)
            /\ \A i \in 1..Len(lines) :
                 /\ out[i] = lines[i] \/ IsTranslationOf(out[i], lines[i])
                 /\ timestampMatch(lines[i]) => out[i].ts = lines[i].ts

\* Witness of C10: two timestamped lines reassembled, the first translated
\* and the second left as it was.
C10_Witness ==
  \E r \in Reqs :
    /\ Assembled(r)
    /\ Len(req[r].transcriptLines) = 2
    /\ \A i \in 1..2 : timestampMatch(req[r].transcriptLines[i])
    /\ req[r].translatedText[1].kind = "tr"
    /\ req[r].translatedText[2] = req[r].transcriptLines[2]

\* Calls r-1 and r are two calls for the same target on a job the caller owns
\* that overlapped: r arrived before r-1 had answered; both have answered.
ConcurrentPair(r) ==
  /\ r > 1 /\ r = ncalls
  /\ Done(r - 1) /\ Done(r)
  /\ (r - 1) \notin req[r].after
  /\ req[r].language = req[r - 1].language
  /\ \A s \in {r - 1, r} :
       /\ req[s].transcription.status = "completed"
       /\ req[s].userId = req[s].transcription.userId
       /\ ~req[s].fault

C12_OnlyBadEntriesAreDeleted ==
  [][\A i \in 1..Len(cache) :
       (\A j \in 1..Len(cache') :
          ~Matches(cache'[j], cache[i].transcriptionId, cache[i].language))
         => ~PassesScriptCheck(cache[i].language, cache[i].translatedText)]_vars

\* C13: when a call responds successfully with a freshly computed or
\* corrected translation (the mock, the per-line translation or its
\* correction), the cache entry for the requested (job, target) key equals
\* the returned text at the moment of the response.
C13_FreshResultIsCachedAtResponse ==
  [][\A r \in Reqs :
       ( /\ req[r].pc \in {"saveMock", "save", "saveCorrected"}
         /\ req'[r].pc = "done" /\ req'[r].status = 200 )
       => getTranslation(cache', JobId, req'[r].language) = req'[r].text]_vars

\* The call record q is of a call on a completed job of the caller whose
\* normalized source equals the normalized target.
SameLanguage(q) ==
  /\ q.transcription.status = "completed"
  /\ q.userId = q.transcription.userId
  /\ normalizeLanguageCode(q.sourceLanguage) = normalizeLanguageCode(q.language)

\* C14: every step of a call whose normalized source equals the normalized
\* target leaves the cache as it was and calls the provider for no line, and
\* the call answers with the stored transcript verbatim.
C14_SameLanguageReturnsTranscript ==
  [][\A r \in Reqs :
       req'[r] # req[r] /\ SameLanguage(req'[r])
         => /\ cache' = cache
            /\ req'[r].calls = 0
            /\ req'[r].pc \in {"fixSource", "done"}
            /\ req'[r].pc = "done"
                 => /\ req'[r].status = 200
                    /\ req'[r].text = req'[r].transcription.transcription]_vars

\* Witness of C14: a two-line transcript with source "en" returned verbatim
\* to a call for "en-US" while the cache holds an entry.
C14_Witness ==
  \E r \in Reqs :
    /\ Done(r) /\ SameLanguage(req[r])
    /\ req[r].language = EN_US /\ req[r].sourceLanguage = EN
    /\ req[r].status = 200
    /\ Len(req[r].text) = 2 /\ req[r].text = req[r].transcription.transcription
    /\ cache # <<>>

\* C15: every text returned for a target that normalizes to "en", and every
\* text written to the cache under such a target, has no Devanagari
\* character.
C15_NoDevanagariForEnglish ==
  /\ [](\A r \in Reqs :
          /\ ( Done(r) /\ req[r].status = 200 /\ NormalizedTarget(r) = EN )
               => ~hasHindiChars(req[r].text)
          /\ ( req[r].pc = "save" /\ NormalizedTarget(r) = EN )
               => ~hasHindiChars(req[r].translatedText))
  /\ [][\A j \in 1..Len(cache') :
          (\A i \in 1..Len(cache) : cache[i] # cache'[j])
            => PassesScriptCheck(cache'[j].language, cache'[j].translatedText)]_vars

\* Witness of C15: the provider answered a call for "en-US" in Devanagari and
\* the call returned the corrected text, now in the cache.
C15_Witness ==
  \E r \in Reqs :
    /\ Done(r) /\ req[r].status = 200 /\ req[r].language = EN_US
    /\ req[r].calls = 2 /\ req[r].text = mockHindiToEnglish
    /\ getTranslation(cache, JobId, EN_US) = mockHindiToEnglish

\* C16: a call whose lookup of the job completes answers 404 when the job
\* does not exist or belongs to another user and 400 when the caller's job
\* is not completed; in both cases the call ends there, having called the
\* provider for no line and changed neither the job record nor the cache.
C16_RejectedCallChangesNothing ==
  [][\A r \in Reqs :
       ( req[r].pc = "idle" /\ req'[r].pc # "idle" /\ ~req'[r].fault )
       => LET q == req'[r]
              missing == job.status = "absent" \/ job.userId # q.userId
          IN /\ missing => q.pc = "done" /\ q.status = 404
             /\ ~missing /\ job.status # "completed"
                  => q.pc = "done" /\ q.status = 400
             /\ missing \/ job.status # "completed"
                  => q.calls = 0 /\ job' = job /\ cache' = cache]_vars

\* Witness of C16: a call by another user on a completed job with a cached
\* translation was answered 404.
C16_Witness ==
  \E r \in Reqs :
    /\ Done(r) /\ req[r].status = 404 /\ ~req[r].fault
    /\ req[r].userId # job.userId
    /\ job.status = "completed" /\ cache # <<>>

\* C17: translateText returns a value to its caller on every evaluation,
\* and whenever the API key is missing or the provider call fails that value
\* is the input text unchanged, for every source/target pair.
C17_TranslateTextNeverThrows ==
  ( fn.op = "translateText" /\ fn.pc = "done" )
    => /\ fn.out.kind # "throw"
       /\ ( ~fn.args.apiKey \/ fn.args.provider = "fail" )
            => fn.out = fn.args.text

\* Witness of C17: the provider call failed on a Devanagari text with the
\* API key present, and the text came back unchanged.
C17_Witness ==
  /\ fn.op = "translateText" /\ fn.pc = "done"
  /\ fn.args.apiKey /\ fn.args.provider = "fail"
  /\ fn.args.text.script = "dev"
  /\ fn.args.sourceLanguage = HI /\ fn.args.targetLanguage = EN
  /\ fn.out = fn.args.text

\* The values of the supported-language table.
SupportedCodes == {languageMap[k] : k \in DOMAIN languageMap}

\* C18: normalizeLanguageCode returns a member of the supported-language
\* table for every input string, and "en" when the lower-cased first segment
\* of the input is not a key of the table.
C18_NormalizeReturnsSupportedCode ==
  ( fn.op = "normalizeLanguageCode" /\ fn.pc # "call" )
    => /\ fn.out \in SupportedCodes
       /\ FirstSegment(FirstSegment(toLowerCase(fn.code), "-"), "_")
             \notin DOMAIN languageMap
            => fn.out = EN

\* C19: normalizeLanguageCode applied to its own result returns that result,
\* and it maps "en-US", "" and "xx-unknown" to "en".
C19_NormalizeIsIdempotent ==
  /\ ( fn.op = "normalizeLanguageCode" /\ fn.pc = "done" )
       => fn.again = fn.out
  /\ ( fn.op = "normalizeLanguageCode" /\ fn.pc # "call"
        /\ fn.code \in {EN_US, NoLang, XX_UNKNOWN} )
       => fn.out = EN

\* C20: the job record is created in status pending, and from there its
\* status goes to processing and then to exactly one of completed and error;
\* it is never created in processing.
C20_JobIsCreatedPending ==
  [][/\ ( job.status = "absent" /\ job'.status # "absent" )
          => job'.status = "pending"
     /\ ( job.status = "pending" /\ job'.status # "pending" )
          => job'.status = "processing"
     /\ ( job.status = "processing" /\ job'.status # "processing" )
          => job'.status \in {"completed", "error"}
     /\ job.status \in {"completed", "error"}
          => job'.status = job.status]_vars

\* C22: once the status of a document job is completed or error it never
\* changes again; in particular a failure of the cleanup that follows the
\* completed write does not move the job to error.
C22_DocumentTerminalStatusNeverChanges ==
  [][doc.job.status \in {"completed", "error"}
       => doc'.job.status = doc.job.status]_vars

\* C23: the progress of a document job never decreases, on the success path
\* and on every failure path.
C23_DocumentProgressNeverDecreases ==
  [][doc'.job.progress >= doc.job.progress]_vars

\* C24: in every reachable state of a document job translatedFileUrl is
\* non-empty only if the status is completed; so a job written as processing
\* (or as error) holds an empty translatedFileUrl.
C24_UrlOnlyWhenCompleted ==
  doc.job.translatedFileUrl # "" => doc.job.status = "completed"

\* The completed write has set the URL and the catch handler, run for a
\* failure that followed it, has cleared it again.
C24_Witness ==
  /\ doc.pc = "done"
  /\ doc.outputFile
  /\ doc.errorMessage = "unlink error"
  /\ doc.job.status = "error"
  /\ doc.job.translatedFileUrl = ""

\* C25: if any step of the document task has failed (extraction, the
\* translation call, the artifact write or a status update), the task ends
\* with the job in status error with a non-empty error message and an empty
\* translatedFileUrl.
C25_FailedStepEndsInError ==
  (doc.pc = "done" /\ doc.failed)
    => /\ doc.job.status = "error"
       /\ doc.job.error # ""
       /\ doc.job.translatedFileUrl = ""

\* C25 for the translation call alone: a document task whose translateText
\* call failed, and no other step, ends with the job in status error.
C25_FailedTranslationEndsInError ==
  (doc.pc = "done" /\ doc.failed /\ nfaults = 0 /\ doc.text # NoLine)
    => doc.job.status = "error"

\* C26: when the text extracted from a document is empty or blank, the
\* translation provider is never called for the job, the progress of the job
\* never reaches 30, and the task ends with the job in status error with an
\* error message.
C26_BlankDocumentFailsAtExtraction ==
  (doc.pc # "idle" /\ doc.document.readable /\ doc.document.script = "blank")
    => /\ doc.calls = 0
       /\ doc.job.progress < 30
       /\ doc.pc = "done" => (doc.job.status = "error" /\ doc.job.error # "")

\* C21: every transcription job and every document job that has been created
\* eventually has a persisted status of completed or error, whether the
\* fetch, extract or translate step succeeds or fails; no job stays in
\* processing forever.
C21_EveryJobReachesTerminalStatus ==
  /\ (job.status # "absent") ~> (job.status \in {"completed", "error"})
  /\ (doc.job.status # "absent") ~> (doc.job.status \in {"completed", "error"})

\* The call has read a completed job of its caller: it is past the 404 and
\* 400 checks and has resolved the source language.
PastChecks(r) ==
  req[r].pc # "idle" /\ req[r].transcription.status = "completed"

\* The source language stored in the job record the call read needs the
\* rewrite: the transcript has a Devanagari character and the value is not hi.
NeedsRewrite(q) ==
  hasHindiChars(q.transcription.transcription)
    /\ q.transcription.sourceLanguage # HI

\* C27, the effective source language: hi whenever the transcript the call
\* read has a Devanagari character, whatever is stored; otherwise the stored
\* value, and en when the stored value is empty.
C27_EffectiveSource ==
  \A r \in Reqs : PastChecks(r) =>
    LET stored == req[r].transcription.sourceLanguage
    IN IF hasHindiChars(req[r].transcription.transcription)
         THEN req[r].sourceLanguage = HI
         ELSE req[r].sourceLanguage = (IF stored = NoLang THEN EN ELSE stored)

\* C27, the write: a call rewrites the stored source language exactly when
\* the transcript has a Devanagari character and the stored value differs
\* from hi; the write sets it to hi; whether the write succeeds or throws the
\* call goes on and is not answered with an error; and no step of
\* getTranslation changes the job record in any other way.
C27_WriteThrough ==
  \A r \in Reqs :
    /\ (req[r].pc = "idle" /\ req'[r].pc # "idle" /\ PastChecks(r)')
         => (req'[r].pc = "fixSource" <=> NeedsRewrite(req'[r]))
    /\ (req[r].pc = "fixSource" /\ req'[r] # req[r])
         => /\ job' = [job EXCEPT !.sourceLanguage = HI] \/ job' = job
            /\ nfaults' = nfaults => job'.sourceLanguage = HI
            /\ req'[r].pc \in {"saveMock", "getCache", "done"}
            /\ req'[r].pc = "done" => req'[r].status = 200
    /\ (req'[r] # req[r] /\ req[r].pc # "fixSource") => job' = job

C28_FailedLinesFallBackToOriginal ==
  \A r \in Reqs :
    /\ (req[r].pc = "translating" /\ AllSettled(req[r])
          /\ \E i \in DOMAIN req[r].outcomes : req[r].outcomes[i] = "fail")
         => ~IsBlankText(req[r].translatedLines)
    /\ Assembled(r)
         => LET lines == req[r].transcriptLines
                out == req[r].translatedText
            IN /\ Len(out) = Len(lines)
               /\ \A i \in 1..Len(lines) :
                    IF req[r].outcomes[i] = "fail"
                      THEN out[i] = lines[i]
                      ELSE IsTranslationOf(out[i], lines[i])

\* Call r consulted the cache, missed, and the provider failed on every line
\* of it; no database operation of the call threw.
AllLinesFailed(r) ==
  /\ Served(r) /\ UsesCache(r)
  /\ req[r].calls > 0
  /\ \A i \in DOMAIN req[r].outcomes : req[r].outcomes[i] = "fail"

\* Call s is a later call of the same kind for the key of call r: it ran on
\* the completed job, source different from target and not hi->en, and no
\* database operation of it threw.
LaterCallSameKey(r, s) ==
  /\ Served(s) /\ UsesCache(s)
  /\ r \in req[s].after
  /\ req[s].language = req[r].language

C30_OfferedCodesNormalizeToThemselves ==
  ( fn.op = "normalizeLanguageCode" /\ fn.pc # "call" /\ fn.code \in languages )
    => fn.out = fn.code

====
